---- MODULE Spec2Model ----
(***************************************************************************)
(* GeckoLoader.py: the command-line driver (argument validation, input     *)
(* checks, destination resolution, scratch directory) and the hook site    *)
(* search / validation (determine_codehook, assert_code_hook,              *)
(* insert_code_hook).                                                      *)
(*                                                                         *)
(* Numbers.  The model checker's integers are 32-bit signed, the program's *)
(* addresses are 32-bit unsigned.  Every address of the model is stored    *)
(* as  address - 0x80000000 ; order and differences of addresses are       *)
(* unchanged by that, and every unsigned 32-bit value has a biased value.  *)
(* A 32-bit word read from the image is stored as a two's-complement       *)
(* integer: a word below 0x80000000 as it is, a larger one as word - 2^32. *)
(*                                                                         *)
(* Strings (paths, hexadecimal arguments) are sequences of one-character   *)
(* strings, so that the string functions are computed character by         *)
(* character.  None is the Python None and the empty string (the program   *)
(* only tests them for truth); an integer n that may be None is Some(n).   *)
(***************************************************************************)
EXTENDS Integers, Sequences, FiniteSets, TLC

VARIABLES
    args,         \* the parsed command line (argparse Namespace), fixed for a run
    pc,           \* position in the program
    exit,         \* "running" | "exit0" | "error" (parser.error) | "exception" (traceback)
    msg,          \* the message of parser.error, or the type of the unhandled exception
    allocation,   \* _allocation
    codehook,     \* _codehook
    hookAddress,  \* codeHandler.hookAddress
    startAddress, \* codeHandler.startAddress
    dol,          \* dolFile: [textSections, data]
    orig,         \* the image bytes as loaded (never written; the claims compare with it)
    cursor,       \* dolFile's read/write position, an address
    sec,          \* index of the section the for loop of assert_code_hook is at
    sample,       \* the local variable sample of assert_code_hook (a word)
    sampled,      \* the sections whose bytes assert_code_hook has read (line 54)
    writes,       \* number of writes made to the image
    dest,         \* the resolved destination path
    fsFiles,      \* the regular files that exist (absolute paths)
    fsDirs,       \* the directories that exist (absolute paths)
    assets,       \* the bundled files that exist under bin/
    opened,       \* the files opened so far
    tmpExists,    \* the scratch directory exists
    tmpCreated    \* this run created the scratch directory

vars == << args, pc, exit, msg, allocation, codehook, hookAddress, startAddress,
           dol, orig, cursor, sec, sample, sampled, writes, dest, fsFiles, fsDirs,
           assets, opened, tmpExists, tmpCreated >>

None == << >>
Some(n) == << n >>

-----------------------------------------------------------------------------
(* Bounds of the model.                                                     *)

\* Fragments (signature, blr, padding byte) the text sections of an image are
\* made of, at most, all sections together.
MaxChunks == 4
\* Characters of a --dest argument, at most.
MaxDestLen == 5

-----------------------------------------------------------------------------
(* Program constants.                                                       *)

\* 0x4E800020, the blr instruction.
BLR == 1317011488
\* 0x80000000 (biased by -0x80000000): the lower bound tested on --codehook.
LowBound == 0
\* 0x81800000 (biased by -0x80000000): the upper bound tested on --codehook.
HighBound == 25165824

\* The bytes of 0x4E800020, big-endian.
BlrBytes == << 78, 128, 0, 32 >>
\* The hook signatures.  The program's are 32 and 16 bytes of VI code; the model
\* keeps the first word of each.
GCNVIHOOK == << 124, 3, 0, 52 >>
WIIVIHOOK == << 124, 227, 59, 120 >>

-----------------------------------------------------------------------------
(* Strings.                                                                 *)

\* s.rfind(c), 1-based: the last index of c in s, 0 when there is none.
RFind(s, c) ==
    LET hits == { i \in 1..Len(s) : s[i] = c }
    IN  IF hits = {} THEN 0 ELSE CHOOSE i \in hits : \A j \in hits : j <= i

\* s.lstrip(c)
LStrip(s, c) ==
    LET keep == { i \in 1..Len(s) : s[i] # c }
    IN  IF keep = {} THEN << >>
        ELSE SubSeq(s, CHOOSE i \in keep : \A j \in keep : i <= j, Len(s))

\* s.rstrip(c)
RStrip(s, c) ==
    LET keep == { i \in 1..Len(s) : s[i] # c }
    IN  IF keep = {} THEN << >>
        ELSE SubSeq(s, 1, CHOOSE i \in keep : \A j \in keep : j <= i)

\* posixpath.splitext(p)[1]
SplitExt(p) ==
    LET sepIndex == RFind(p, "/")
        dotIndex == RFind(p, ".")
    IN  IF dotIndex > sepIndex
           /\ \E i \in (sepIndex + 1)..(dotIndex - 1) : p[i] # "."
        THEN SubSeq(p, dotIndex, Len(p))
        ELSE << >>

\* posixpath.basename(p)
Basename(p) == SubSeq(p, RFind(p, "/") + 1, Len(p))

\* posixpath.dirname(p)
Dirname(p) ==
    LET head == SubSeq(p, 1, RFind(p, "/"))
    IN  IF head # << >> /\ \E i \in 1..Len(head) : head[i] # "/"
        THEN RStrip(head, "/")
        ELSE head

\* posixpath.join(a, b), one step of the loop over the later arguments.
Join(a, b) ==
    IF b # << >> /\ b[1] = "/" THEN b
    ELSE IF a = << >> \/ a[Len(a)] = "/" THEN a \o b
    ELSE a \o << "/" >> \o b

\* p.split("/"): the pieces between the separators, empty ones included.
RECURSIVE Split(_)
Split(p) ==
    LET seps == { i \in 1..Len(p) : p[i] = "/" }
    IN  IF seps = {} THEN << p >>
        ELSE LET i == CHOOSE k \in seps : \A j \in seps : k <= j
             IN  << SubSeq(p, 1, i - 1) >> \o Split(SubSeq(p, i + 1, Len(p)))

\* The loop of posixpath.normpath over the components.
RECURSIVE NormComps(_, _, _)
NormComps(comps, new, rooted) ==
    IF comps = << >> THEN new
    ELSE LET comp == Head(comps)
             dotdot == << ".", "." >>
         IN  IF comp = << >> \/ comp = << "." >>
             THEN NormComps(Tail(comps), new, rooted)
             ELSE IF comp # dotdot
                     \/ (~rooted /\ new = << >>)
                     \/ (new # << >> /\ new[Len(new)] = dotdot)
             THEN NormComps(Tail(comps), Append(new, comp), rooted)
             ELSE IF new # << >>
             THEN NormComps(Tail(comps), SubSeq(new, 1, Len(new) - 1), rooted)
             ELSE NormComps(Tail(comps), new, rooted)

\* "/".join(comps)
RECURSIVE JoinComps(_)
JoinComps(comps) ==
    IF comps = << >> THEN << >>
    ELSE IF Len(comps) = 1 THEN comps[1]
    ELSE comps[1] \o << "/" >> \o JoinComps(Tail(comps))

\* posixpath.normpath(p)
NormPath(p) ==
    IF p = << >> THEN << "." >>
    ELSE LET slashes == IF p[1] # "/" THEN 0
                        ELSE IF Len(p) >= 2 /\ p[2] = "/" /\ ~(Len(p) >= 3 /\ p[3] = "/")
                        THEN 2 ELSE 1
             body == JoinComps(NormComps(Split(p), << >>, slashes > 0))
             out == [i \in 1..slashes |-> "/"] \o body
         IN  IF out = << >> THEN << "." >> ELSE out

\* The proper ancestors of an absolute normalised path, the root included.
Ancestors(p) ==
    { << "/" >> } \cup
    { SubSeq(p, 1, i - 1) : i \in { k \in 2..Len(p) : p[k] = "/" } }

-----------------------------------------------------------------------------
(* int(s, 16)                                                               *)

HexTable ==
    ("0" :> 0) @@ ("1" :> 1) @@ ("2" :> 2) @@ ("3" :> 3) @@ ("4" :> 4) @@
    ("5" :> 5) @@ ("6" :> 6) @@ ("7" :> 7) @@ ("8" :> 8) @@ ("9" :> 9) @@
    ("A" :> 10) @@ ("B" :> 11) @@ ("C" :> 12) @@ ("D" :> 13) @@ ("E" :> 14) @@
    ("F" :> 15) @@ ("a" :> 10) @@ ("b" :> 11) @@ ("c" :> 12) @@ ("d" :> 13) @@
    ("e" :> 14) @@ ("f" :> 15)

\* The value of the hexadecimal digits ds (fewer than 8 of them).
RECURSIVE HexNat(_)
HexNat(ds) ==
    IF ds = << >> THEN 0
    ELSE 16 * HexNat(SubSeq(ds, 1, Len(ds) - 1)) + HexTable[ds[Len(ds)]]

\* int(s, 16) for a string of at most 8 digits after an optional 0x: ok is
\* FALSE where Python raises ValueError, val is the value biased by -0x80000000
\* (the first of 8 digits counts (d - 8) * 16^7).
ParseHex(s) ==
    LET ds == IF Len(s) >= 2 /\ s[1] = "0" /\ s[2] \in { "x", "X" }
              THEN SubSeq(s, 3, Len(s)) ELSE s
        ok == ds # << >> /\ Len(ds) <= 8
              /\ \A i \in 1..Len(ds) : ds[i] \in DOMAIN HexTable
        top == IF Len(ds) = 8 THEN HexTable[ds[1]] ELSE 0
        low == IF Len(ds) = 8 THEN SubSeq(ds, 2, 8) ELSE ds
    IN  [ ok |-> ok,
          val |-> IF ok THEN (top - 8) * 268435456 + HexNat(low) ELSE 0 ]

-----------------------------------------------------------------------------
(* The image (DolFile) and the instruction words.                           *)

\* The fragments an image of the model is made of.
ChunkBytes ==
    ("G" :> GCNVIHOOK) @@ ("W" :> WIIVIHOOK) @@ ("R" :> BlrBytes) @@ ("P" :> << 0 >>)

RECURSIVE Flatten(_)
Flatten(chunks) ==
    IF chunks = << >> THEN << >>
    ELSE ChunkBytes[Head(chunks)] \o Flatten(Tail(chunks))

\* 0x80003100, where the first text section is loaded.
TextBase == ParseHex(<< "8", "0", "0", "0", "3", "1", "0", "0" >>).val

\* A DolFile with one or two text sections holding the fragments c1 and c2, the
\* second one gap bytes after the end of the first.
MkDol(c1, c2, gap) ==
    LET b1 == Flatten(c1)
        b2 == Flatten(c2)
        a2 == TextBase + Len(b1) + gap
        s1 == [offset |-> 256, address |-> TextBase, size |-> Len(b1)]
        s2 == [offset |-> 256 + Len(b1), address |-> a2, size |-> Len(b2)]
    IN  [ textSections |-> IF b2 = << >> THEN << s1 >> ELSE << s1, s2 >>,
          data |-> [ a \in (TextBase..(TextBase + Len(b1) - 1)) \cup (a2..(a2 + Len(b2) - 1))
                     |-> IF a < TextBase + Len(b1) THEN b1[a - TextBase + 1]
                         ELSE b2[a - a2 + 1] ] ]

\* ImageContainer's address translation: some section contains [a, a + n).
Mapped(d, a, n) ==
    \E i \in 1..Len(d.textSections) :
        LET s == d.textSections[i]
        IN  s.address <= a /\ a + n <= s.address + s.size

\* dolFile.read(n) at address a (the address is mapped).
ReadBytes(d, a, n) == [i \in 1..n |-> d.data[a + i - 1]]

\* The bytes of section i of the table.
SectionBytes(d, i) ==
    ReadBytes(d, d.textSections[i].address, d.textSections[i].size)

\* read_uint32: four bytes, big-endian (two's complement, see the head of the module).
Uint32(bs) ==
    (((IF bs[1] >= 128 THEN bs[1] - 256 ELSE bs[1]) * 256 + bs[2]) * 256 + bs[3]) * 256 + bs[4]

\* write_uint32's bytes of a word w in 0..2^31-1.
WordBytes(w) ==
    << w \div 16777216, (w \div 65536) % 256, (w \div 256) % 256, w % 256 >>

\* InstructionCodec.encode_branch(from, to, link): the displacement must fit the
\* signed 26-bit field and be a multiple of 4; opcode 18 (0x48000000), LI, AA = 0, LK.
EncodeBranch(from, to, link) ==
    LET disp == to - from
    IN  [ ok |-> disp >= -33554432 /\ disp < 33554432 /\ disp % 4 = 0,
          word |-> 1207959552 + (disp % 67108864) + link ]

\* ImageContainer.write(a, bytes): in place.
WriteBytes(d, a, bs) ==
    [ d EXCEPT !.data = [ x \in DOMAIN d.data |->
                            IF x >= a /\ x < a + Len(bs) THEN bs[x - a + 1]
                            ELSE d.data[x] ] ]

\* bytes.find(pat), 0-based, -1 when pat does not occur.
Find(bytes, pat) ==
    LET hits == { i \in 0..(Len(bytes) - Len(pat)) :
                    SubSeq(bytes, i + 1, i + Len(pat)) = pat }
    IN  IF hits = {} THEN -1 ELSE CHOOSE i \in hits : \A j \in hits : i <= j

-----------------------------------------------------------------------------
(* The run: __main__ from line 223 on.                                      *)

\* os.getcwd()
Cwd == << "/", "w" >>

\* A path as the operating system resolves it from the working directory.
Abs(p) == NormPath(Join(Cwd, p))

\* A Python string that is true in a condition.
Truthy(s) == s # None

\* Lines 244-250: the handler asset of --handler.
CodeHandlerFile ==
    IF args.handler = "MINI" THEN "codehandler-mini.bin" ELSE "codehandler.bin"

\* What the build may choose for codeHandler.startAddress: 0x80001800 (the
\* legacy code space) and 0x817F0000 (below the top of the arena).
StartAddrs == { 6144, 25100288 }

cliVars == << args, orig, allocation, codehook >>
ioVars == << dest, fsFiles, fsDirs, assets, opened, tmpExists, tmpCreated >>
hookVars == << hookAddress, startAddress, dol, cursor, sec, sample, sampled, writes >>

Goto(l) == pc' = l /\ UNCHANGED << exit, msg >>

\* CommandLineParser.error(message): prints the message and exits with status 2.
ParserError(m) == pc' = "done" /\ exit' = "error" /\ msg' = m

\* An exception no handler catches: a traceback, exit status 1.
Raise(e) == pc' = "done" /\ exit' = "exception" /\ msg' = e

\* Lines 225-231.
ParseAlloc ==
    /\ pc = "l225"
    /\ IF Truthy(args.alloc)
       THEN IF ParseHex(args.alloc).ok
            THEN allocation' = Some(ParseHex(args.alloc).val) /\ Goto("l233")
            ELSE ParserError("The allocation was invalid") /\ UNCHANGED allocation
       ELSE allocation' = None /\ Goto("l233")
    /\ UNCHANGED << args, orig, codehook, ioVars, hookVars >>

\* Lines 233-242.  int(args.codehook, 16) of line 234 is evaluated before the
\* try of line 237; the chained comparison of line 234 is
\* 0x80000000 > x and x >= 0x81800000.
ParseCodehook ==
    /\ pc = "l233"
    /\ IF Truthy(args.codehook)
       THEN LET p == ParseHex(args.codehook)
            IN  IF ~p.ok
                THEN Raise("ValueError") /\ UNCHANGED codehook
                ELSE IF LowBound > p.val /\ p.val >= HighBound
                THEN ParserError("The codeHandler hook address was beyond bounds")
                     /\ UNCHANGED codehook
                ELSE codehook' = Some(p.val) /\ Goto("l253")
       ELSE codehook' = None /\ Goto("l253")
    /\ UNCHANGED << args, orig, allocation, ioVars, hookVars >>

\* Lines 253-257.
CheckInputs ==
    /\ pc = "l253"
    /\ IF Abs(args.dolfile) \notin fsFiles
       THEN ParserError("File does not exist")
       ELSE IF Abs(args.codelist) \notin fsFiles \cup fsDirs
       THEN ParserError("File/folder does not exist")
       ELSE Goto("l259")
    /\ UNCHANGED << cliVars, ioVars, hookVars >>

\* Lines 259-265.
OpenHandler ==
    /\ pc = "l259"
    /\ IF CodeHandlerFile \in assets
       THEN /\ opened' = opened \cup { CodeHandlerFile }
            /\ hookAddress' = codehook
            /\ Goto("l267")
       ELSE Goto("l302") /\ UNCHANGED << opened, hookAddress >>
    /\ UNCHANGED << cliVars, dest, fsFiles, fsDirs, assets, tmpExists, tmpCreated,
                    startAddress, dol, cursor, sec, sample, sampled, writes >>

\* Lines 267-275.
OpenKernel ==
    /\ pc = "l267"
    /\ IF "geckoloader.bin" \in assets
       THEN opened' = opened \cup { "geckoloader.bin" } /\ Goto("l277")
       ELSE Goto("l302") /\ UNCHANGED opened
    /\ UNCHANGED << cliVars, dest, fsFiles, fsDirs, assets, tmpExists, tmpCreated, hookVars >>

\* Lines 277-281.
OpenDol ==
    /\ pc = "l277"
    /\ IF Abs(args.dolfile) \in fsFiles
       THEN opened' = opened \cup { "dolfile" } /\ Goto("l283")
       ELSE Goto("l302") /\ UNCHANGED opened
    /\ UNCHANGED << cliVars, dest, fsFiles, fsDirs, assets, tmpExists, tmpCreated, hookVars >>

\* Lines 283-289: the destination path.
ResolveDest(d, dolfile) ==
    IF Truthy(d)
    THEN IF SplitExt(d) = << >>
         THEN NormPath(Join(Join(Cwd, LStrip(LStrip(d, "\\"), "/")), Basename(dolfile)))
         ELSE NormPath(Join(Cwd, LStrip(LStrip(d, "\\"), "/")))
    ELSE NormPath(Join(Join(Cwd, << "B", "U", "I", "L", "D" >>), Basename(dolfile)))

\* Lines 283-292.  os.makedirs(path, exist_ok=True) fails where the path or one
\* of its ancestors is a regular file.
MakeDest ==
    /\ pc = "l283"
    /\ LET path == ResolveDest(args.dest, args.dolfile)
           dir == Dirname(path)
       IN  /\ dest' = path
           /\ IF path \notin fsFiles \cup fsDirs /\ dir \notin { << >>, << "/" >> }
              THEN IF (Ancestors(dir) \cup { dir }) \cap fsFiles # {}
                   THEN Raise("NotADirectoryError") /\ UNCHANGED fsDirs
                   ELSE fsDirs' = fsDirs \cup Ancestors(dir) \cup { dir } /\ Goto("l294")
              ELSE Goto("l294") /\ UNCHANGED fsDirs
    /\ UNCHANGED << cliVars, fsFiles, assets, opened, tmpExists, tmpCreated, hookVars >>

\* Lines 294-295.
MakeTmp ==
    /\ pc = "l294"
    /\ IF ~tmpExists
       THEN tmpExists' = TRUE /\ tmpCreated' = TRUE
       ELSE UNCHANGED << tmpExists, tmpCreated >>
    /\ Goto("l297")
    /\ UNCHANGED << cliVars, dest, fsFiles, fsDirs, assets, opened, hookVars >>

\* Line 297, KernelLoader.build up to the hooking stage: the payload's entry
\* address is decided.
BuildPrepare ==
    /\ pc = "l297"
    /\ \E a \in StartAddrs : startAddress' = Some(a)
    /\ Goto("l46")
    /\ UNCHANGED << cliVars, ioVars, hookAddress, dol, cursor, sec, sample, sampled, writes >>

\* Lines 45-49.
DetermineCodehook ==
    /\ pc = "l46"
    /\ IF hookAddress = None
       THEN sec' = 1 /\ Goto("l52")
       ELSE UNCHANGED sec /\ Goto("l80")
    /\ UNCHANGED << cliVars, ioVars, hookAddress, startAddress, dol, cursor, sample,
                    sampled, writes >>

\* Lines 56-66: the offset of the signature in the section's bytes, -1 for none.
FindHook_WiiFirst(bytes) ==
    IF Find(bytes, WIIVIHOOK) >= 0 THEN Find(bytes, WIIVIHOOK)
    ELSE Find(bytes, GCNVIHOOK)

FindHook(bytes) ==
    IF Find(bytes, GCNVIHOOK) >= 0 THEN Find(bytes, GCNVIHOOK)
    ELSE Find(bytes, WIIVIHOOK)

\* Lines 52-66: one iteration of the for loop up to the read of line 68.
AssertNextSection ==
    /\ pc = "l52"
    /\ sec <= Len(dol.textSections)
    /\ LET s == dol.textSections[sec]
           result == FindHook(SectionBytes(dol, sec))
       IN  IF result >= 0
           THEN cursor' = s.address + result /\ UNCHANGED sec /\ Goto("l68")
           ELSE cursor' = s.address + s.size /\ sec' = sec + 1 /\ Goto("l52")
    /\ sampled' = sampled \cup { sec }
    /\ UNCHANGED << cliVars, ioVars, hookAddress, startAddress, dol, sample, writes >>

\* Line 78: the for loop is exhausted.
AssertNotFound_Silent ==
    /\ pc = "l52"
    /\ sec > Len(dol.textSections)
    /\ Goto("emit")
    /\ UNCHANGED << cliVars, ioVars, hookVars >>

AssertNotFound ==
    /\ pc = "l52"
    /\ sec > Len(dol.textSections)
    /\ ParserError("Failed to find a hook address")
    /\ UNCHANGED << cliVars, ioVars, hookVars >>

\* read_uint32(dolFile) at the cursor, then go to l; the read fails with
\* AddressOutOfRange where no section contains the four bytes.
ReadUint32(l) ==
    IF Mapped(dol, cursor, 4)
    THEN /\ sample' = Some(Uint32(ReadBytes(dol, cursor, 4)))
         /\ cursor' = cursor + 4
         /\ Goto(l)
    ELSE Raise("AddressOutOfRange") /\ UNCHANGED << sample, cursor >>

\* Line 68.
ReadFirst ==
    /\ pc = "l68"
    /\ ReadUint32("l69")
    /\ UNCHANGED << cliVars, ioVars, hookAddress, startAddress, dol, sec, sampled, writes >>

\* Lines 69-70: the test of the while loop, and its body.
ScanLoop ==
    /\ pc = "l69"
    /\ IF sample # Some(BLR)
       THEN ReadUint32("l69")
       ELSE Goto("l72") /\ UNCHANGED << sample, cursor >>
    /\ UNCHANGED << cliVars, ioVars, hookAddress, startAddress, dol, sec, sampled, writes >>

\* Lines 72-75, up to the call of insert_code_hook.
AssertFound_NoSeekBack ==
    /\ pc = "l72"
    /\ hookAddress' = Some(cursor)
    /\ Goto("l80")
    /\ UNCHANGED << cliVars, ioVars, startAddress, dol, cursor, sec, sample, sampled, writes >>

AssertFound ==
    /\ pc = "l72"
    /\ cursor' = cursor - 4
    /\ hookAddress' = Some(cursor - 4)
    /\ Goto("l80")
    /\ UNCHANGED << cliVars, ioVars, startAddress, dol, sec, sample, sampled, writes >>

\* Line 83: the word at the hook address is the return instruction.
HookIsReturn_Any(address) == TRUE

HookIsReturn(address) == Uint32(ReadBytes(dol, address, 4)) = BLR

\* Line 87: the arguments of insert_branch(to, _from, lk).
HookBranch_Linked(address) == [to |-> startAddress[1], from |-> address, lk |-> 1]

HookBranch(address) == [to |-> startAddress[1], from |-> address, lk |-> 0]

\* Lines 80-87, called with codeHandler.hookAddress by both callers.
\* DolFile.insert_branch encodes the branch and writes it at _from.
InsertCodeHook ==
    /\ pc = "l80"
    /\ LET address == hookAddress[1]
           b == HookBranch(address)
           e == EncodeBranch(b.from, b.to, b.lk)
       IN  IF ~Mapped(dol, address, 4)
           THEN Raise("AddressOutOfRange") /\ cursor' = address /\ UNCHANGED << dol, writes >>
           ELSE IF ~HookIsReturn(address)
           THEN ParserError("Codehandler hook given is not a blr")
                /\ cursor' = address + 4 /\ UNCHANGED << dol, writes >>
           ELSE IF ~e.ok
           THEN Raise("DisplacementOutOfRange") /\ cursor' = address
                /\ UNCHANGED << dol, writes >>
           ELSE IF ~Mapped(dol, b.from, 4)
           THEN Raise("AddressOutOfRange") /\ cursor' = address
                /\ UNCHANGED << dol, writes >>
           ELSE /\ dol' = WriteBytes(dol, b.from, WordBytes(e.word))
                /\ writes' = writes + 1
                /\ cursor' = b.from + 4
                /\ Goto(IF codehook = None THEN "l76" ELSE "emit")
    /\ UNCHANGED << cliVars, ioVars, hookAddress, startAddress, sec, sample, sampled >>

\* Line 76.
AssertReturn ==
    /\ pc = "l76"
    /\ Goto("emit")
    /\ UNCHANGED << cliVars, ioVars, hookVars >>

\* KernelLoader.build after the hooking stage: the image is written to dest.
BuildEmit ==
    /\ pc = "emit"
    /\ fsFiles' = fsFiles \cup { dest }
    /\ Goto("l299")
    /\ UNCHANGED << cliVars, dest, fsDirs, assets, opened, tmpExists, tmpCreated, hookVars >>

\* Lines 299-300.
Cleanup ==
    /\ pc = "l299"
    /\ tmpExists' = FALSE
    /\ pc' = "done" /\ exit' = "exit0" /\ UNCHANGED msg
    /\ UNCHANGED << cliVars, dest, fsFiles, fsDirs, assets, opened, tmpCreated, hookVars >>

\* Lines 302-303: e + '\n' adds a str to a FileNotFoundError.
ExceptHandler ==
    /\ pc = "l302"
    /\ Raise("TypeError")
    /\ UNCHANGED << cliVars, ioVars, hookVars >>

-----------------------------------------------------------------------------
(* The runs of the model.                                                   *)

DefaultArgs ==
    [ alloc |-> None, codehook |-> None, dest |-> None, handler |-> "FULL",
      dolfile |-> << "a" >>, codelist |-> << "c" >> ]

AllAssets == { "codehandler.bin", "codehandler-mini.bin", "geckoloader.bin" }

InputFiles == { Abs(DefaultArgs.dolfile), Abs(DefaultArgs.codelist) }

\* The state at line 223 of a run with command line a on image d.
Start(a, d, files, bundled, tmp) ==
    /\ args = a
    /\ pc = "l225"
    /\ exit = "running"
    /\ msg = ""
    /\ allocation = None
    /\ codehook = None
    /\ hookAddress = None
    /\ startAddress = None
    /\ dol = d
    /\ orig = d.data
    /\ cursor = d.textSections[1].address
    /\ sec = 0
    /\ sample = None
    /\ sampled = {}
    /\ writes = 0
    /\ dest = None
    /\ fsFiles = files
    /\ fsDirs = { << "/" >>, Cwd }
    /\ assets = bundled
    /\ opened = {}
    /\ tmpExists = tmp
    /\ tmpCreated = FALSE

ChunkSeqs(n) == UNION { [1..k -> DOMAIN ChunkBytes] : k \in 1..n }

\* --codehook values of the runs over the images: none, and the first text
\* section's address plus 0, 1 and 4.
ImageHooks ==
    { None,
      << "8", "0", "0", "0", "3", "1", "0", "0" >>,
      << "8", "0", "0", "0", "3", "1", "0", "1" >>,
      << "8", "0", "0", "0", "3", "1", "0", "4" >> }

\* Every image of at most MaxChunks fragments in one or two text sections, the
\* second section adjacent to the first or 16 bytes after it.
InitImage ==
    \E c \in ChunkSeqs(MaxChunks) : \E k \in 1..Len(c) : \E g \in { 0, 16 } :
    \E h \in ImageHooks :
        Start([DefaultArgs EXCEPT !.codehook = h],
              MkDol(SubSeq(c, 1, k), SubSeq(c, k + 1, Len(c)), g),
              InputFiles, AllAssets, FALSE)

\* The images of the runs over the command lines: a signature followed by a
\* blr, no signature, a signature and no blr.
CliImages ==
    { MkDol(<< "G", "R" >>, << >>, 0), MkDol(<< "P" >>, << >>, 0), MkDol(<< "G" >>, << >>, 0) }

\* --codehook values of the runs over the command lines.
CliHooks ==
    { None,
      << "8", "0", "0", "0", "3", "1", "0", "4" >>,
      << "0", "x", "8", "0", "0", "0", "3", "1", "0", "4" >>,
      << "7", "F", "F", "F", "F", "F", "F", "C" >>,
      << "8", "1", "7", "F", "F", "F", "F", "C" >>,
      << "8", "1", "8", "0", "0", "0", "0", "0" >>,
      << "3", "1", "0", "4" >>,
      << "z", "z" >> }

CliAllocs == { None, << "1", "0" >>, << "z", "z" >> }

\* Every command line over the options above, with each input file and each
\* bundled asset present or missing, and the scratch directory's name free or taken.
InitCli ==
    \E d \in CliImages : \E h \in CliHooks : \E al \in CliAllocs :
    \E ha \in { "FULL", "MINI" } : \E files \in SUBSET InputFiles :
    \E missing \in { {} } \cup { { x } : x \in AllAssets } : \E tmp \in BOOLEAN :
        Start([DefaultArgs EXCEPT !.codehook = h, !.alloc = al, !.handler = ha],
              d, files, AllAssets \ missing, tmp)

DestChars == { "/", ".", "a" }

\* Every --dest of at most MaxDestLen characters.
InitDest ==
    \E n \in 0..MaxDestLen : \E p \in [1..n -> DestChars] :
        Start([DefaultArgs EXCEPT !.dest = p], MkDol(<< "G", "R" >>, << >>, 0),
              InputFiles, AllAssets, FALSE)

Init == InitImage \/ InitCli \/ InitDest

Next ==
    \/ ParseAlloc
    \/ ParseCodehook
    \/ CheckInputs
    \/ OpenHandler
    \/ OpenKernel
    \/ OpenDol
    \/ MakeDest
    \/ MakeTmp
    \/ BuildPrepare
    \/ DetermineCodehook
    \/ AssertNextSection
    \/ AssertNotFound
    \/ ReadFirst
    \/ ScanLoop
    \/ AssertFound
    \/ InsertCodeHook
    \/ AssertReturn
    \/ BuildEmit
    \/ Cleanup
    \/ ExceptHandler

Spec == Init /\ [][Next]_vars

-----------------------------------------------------------------------------
(* What the claims speak of.                                                *)

\* The image as it was loaded.
OrigDol == [dol EXCEPT !.data = orig]

\* The hook address is searched for (no --codehook), or given.
SearchPath == ~Truthy(args.codehook)
ExplicitPath == Truthy(args.codehook) /\ ParseHex(args.codehook).ok
GivenHook == ParseHex(args.codehook).val

\* The loaded image holds the return instruction at address a.
IsBlrAt(a) == Mapped(dol, a, 4) /\ ReadBytes(OrigDol, a, 4) = BlrBytes

\* pat occurs in bytes at the 0-based offset o.
OccursAt(bytes, pat, o) ==
    /\ o >= 0
    /\ o + Len(pat) <= Len(bytes)
    /\ \A k \in 1..Len(pat) : bytes[o + k] = pat[k]

Contains(bytes, pat) == \E o \in 0..Len(bytes) : OccursAt(bytes, pat, o)

\* o is the first place pat occurs at in bytes.
FirstAt(bytes, pat, o) ==
    OccursAt(bytes, pat, o) /\ \A q \in 0..(o - 1) : ~OccursAt(bytes, pat, q)

\* Section i of the loaded image holds a hook signature.
HasSig(i) ==
    \/ Contains(SectionBytes(OrigDol, i), GCNVIHOOK)
    \/ Contains(SectionBytes(OrigDol, i), WIIVIHOOK)

\* o is where the search matches in section i: the first GameCube signature,
\* or without one the first Wii signature.
MatchAt(i, o) ==
    LET bytes == SectionBytes(OrigDol, i)
    IN  IF Contains(bytes, GCNVIHOOK) THEN FirstAt(bytes, GCNVIHOOK, o)
        ELSE FirstAt(bytes, WIIVIHOOK, o)

\* Address a lies in section i.
InSection(i, a) ==
    LET s == dol.textSections[i]
    IN  s.address <= a /\ a < s.address + s.size

\* The hooking stage has been entered and left.
HookingOver == startAddress # None /\ pc \notin { "l46", "l52", "l68", "l69", "l72", "l80" }

NotFoundMsg == "Failed to find a hook address"
NotBlrMsg == "Codehandler hook given is not a blr"
BoundsMsg == "The codeHandler hook address was beyond bounds"

\* The branch word at address a of the current image: opcode 18, AA, LK and the
\* target a + sign-extended LI.
BranchAt(a) ==
    LET b == ReadBytes(dol, a, 4)
        li == (b[1] % 4) * 16777216 + b[2] * 65536 + b[3] * 256 + (b[4] - (b[4] % 4))
    IN  [ opcode |-> b[1] \div 4,
          aa |-> (b[4] \div 2) % 2,
          lk |-> b[4] % 2,
          target |-> a + (IF li >= 33554432 THEN li - 67108864 ELSE li) ]

-----------------------------------------------------------------------------
(* The claims.                                                              *)

\* C1: a --codehook address below 0x80000000 or not below 0x81800000 makes the
\* run fail with the 'beyond bounds' error, before any file is opened and
\* before any word of the image is changed.  (The --alloc value is fine.)
C1_BoundsRejected ==
    ( /\ ExplicitPath
      /\ (GivenHook < LowBound \/ GivenHook >= HighBound)
      /\ (Truthy(args.alloc) => ParseHex(args.alloc).ok)
      /\ pc \notin { "l225", "l233" } )
    => ( /\ pc = "done"
         /\ exit = "error"
         /\ msg = BoundsMsg
         /\ opened = {}
         /\ dol.data = orig )

\* C2: with an explicit hook address A the image is written only if the word
\* at A is 0x4E800020; when the word at A is another one, the run ends with
\* the 'not a blr' error and the image is unchanged.
C2_ReturnCheck ==
    ExplicitPath =>
        /\ (writes > 0 \/ dol.data # orig) => IsBlrAt(GivenHook)
        /\ ( /\ HookingOver
             /\ Mapped(dol, GivenHook, 4)
             /\ ~IsBlrAt(GivenHook) )
           => ( /\ pc = "done"
                /\ exit = "error"
                /\ msg = NotBlrMsg
                /\ writes = 0
                /\ dol.data = orig )

\* C2's case: an explicit address in the image that holds no blr was refused.
C2_Witness ==
    /\ ExplicitPath
    /\ Mapped(dol, GivenHook, 4)
    /\ ~IsBlrAt(GivenHook)
    /\ pc = "done"
    /\ msg = NotBlrMsg

\* C3: on the search path the hook address is, for the first section (in table
\* order) that holds a signature, the address of the first word 0x4E800020
\* met stepping 4 bytes at a time from the match position; hookAddress is that
\* address from then on, and no later section is examined.
C3_SearchResult ==
    (SearchPath /\ hookAddress # None) =>
        \E i \in 1..Len(dol.textSections) :
            /\ HasSig(i)
            /\ \A j \in 1..(i - 1) : ~HasSig(j)
            /\ sec = i
            /\ sampled = 1..i
            /\ \E o \in 0..dol.textSections[i].size :
               \E k \in 0..Cardinality(DOMAIN orig) :
                /\ MatchAt(i, o)
                /\ hookAddress = Some(dol.textSections[i].address + o + 4 * k)
                /\ IsBlrAt(dol.textSections[i].address + o + 4 * k)
                /\ \A j \in 0..(k - 1) :
                       /\ Mapped(dol, dol.textSections[i].address + o + 4 * j, 4)
                       /\ ~IsBlrAt(dol.textSections[i].address + o + 4 * j)

\* C3's case: a run that found its hook in the first section, past the match
\* position, while the second section holds a signature too.
C3_Witness ==
    /\ SearchPath
    /\ exit = "exit0"
    /\ hookAddress # None
    /\ Len(dol.textSections) = 2
    /\ sec = 1
    /\ HasSig(2)
    /\ \E o \in 0..dol.textSections[1].size :
           MatchAt(1, o) /\ hookAddress[1] > dol.textSections[1].address + o

\* C4: on the search path, with no signature in any text section, the search
\* ends in the 'Failed to find a hook address' error, with hookAddress unset,
\* no branch written and the image unchanged, and the run is over.
C4_HookNotFound ==
    ( /\ SearchPath
      /\ sec >= 1
      /\ \A i \in 1..Len(dol.textSections) : ~HasSig(i) )
    => /\ hookAddress = None
       /\ writes = 0
       /\ dol.data = orig
       /\ pc \in { "l52", "done" }
       /\ pc = "done" =>
            /\ exit = "error"
            /\ msg = NotFoundMsg
            /\ sampled = 1..Len(dol.textSections)
            /\ dest \notin fsFiles
            /\ ~ENABLED Next

\* C4's case: a search over two sections without a signature has ended.
C4_Witness ==
    /\ SearchPath
    /\ Len(dol.textSections) = 2
    /\ \A i \in 1..2 : ~HasSig(i)
    /\ pc = "done"
    /\ msg = NotFoundMsg

\* C5: a successful run has written exactly one word, at the hook address H
\* (the given one on the explicit path), where the loaded image held a blr;
\* the word is an unlinked relative branch whose target is
\* codeHandler.startAddress, and no other byte of the image differs.
C5_HookBranch ==
    (writes > 0 \/ exit = "exit0") =>
        /\ writes = 1
        /\ hookAddress # None
        /\ startAddress # None
        /\ ExplicitPath => hookAddress = Some(GivenHook)
        /\ IsBlrAt(hookAddress[1])
        /\ \A a \in DOMAIN orig :
               (a < hookAddress[1] \/ a >= hookAddress[1] + 4) => dol.data[a] = orig[a]
        /\ BranchAt(hookAddress[1]) =
               [opcode |-> 18, aa |-> 0, lk |-> 0, target |-> startAddress[1]]

\* C5's case: a successful run whose hook was searched for and lies behind
\* the start of the section, and whose payload lies below the image.
C5_Witness ==
    /\ exit = "exit0"
    /\ SearchPath
    /\ hookAddress[1] > dol.textSections[1].address
    /\ startAddress[1] < hookAddress[1]

\* C6: when the run that created the scratch directory has ended, on whatever
\* path, the scratch directory does not exist.
C6_TmpReleased == (pc = "done" /\ tmpCreated) => ~tmpExists

\* C7: every failure ends in a message of the error reporter, never in an
\* unhandled exception; an invalid --alloc or --codehook value in its 'was
\* invalid' message, a missing file or asset in a not-found message.
C7_ErrorsReported ==
    (pc = "done" /\ exit # "exit0") =>
        /\ exit = "error"
        /\ (Truthy(args.alloc) /\ ~ParseHex(args.alloc).ok)
               => msg = "The allocation was invalid"
        /\ ( /\ Truthy(args.alloc) => ParseHex(args.alloc).ok
             /\ Truthy(args.codehook)
             /\ ~ParseHex(args.codehook).ok )
               => msg = "The codeHandler hook address was invalid"

\* C8: the search ends with a hook address or with HookNotFound, and a hook
\* address it ends with lies in the section the signature was matched in.
C8_SearchTerminates ==
    (SearchPath /\ sec >= 1 /\ pc = "done") =>
        \/ hookAddress # None /\ InSection(sec, hookAddress[1])
        \/ hookAddress = None /\ exit = "error" /\ msg = NotFoundMsg

\* C9: the resolved destination is the file --dest names (an absolute --dest
\* stays that absolute path), for a --dest without extension that folder joined
\* with the DOL's base name, without --dest ./BUILD/<DOL base name>; and its
\* parent directory exists when the build starts.
C9_DestResolved ==
    dest # None =>
        /\ (Truthy(args.dest) /\ SplitExt(args.dest) # << >>)
               => dest = Abs(args.dest)
        /\ (Truthy(args.dest) /\ SplitExt(args.dest) = << >>)
               => dest = Abs(Join(args.dest, Basename(args.dolfile)))
        /\ ~Truthy(args.dest)
               => dest = Abs(Join(<< "B", "U", "I", "L", "D" >>, Basename(args.dolfile)))
        /\ pc = "l297" => Dirname(dest) \in fsDirs

\* C10: the match position in a section is the first GameCube signature where
\* the section holds one, even when a Wii signature comes before it, and the
\* first Wii signature otherwise; no section before the matched one, and none
\* the search has passed, holds either signature.
C10_SignaturePriority ==
    /\ pc \in { "l52", "l68" } =>
           \A j \in 1..(sec - 1) : j <= Len(dol.textSections) => ~HasSig(j)
    /\ pc = "l68" =>
           LET bytes == SectionBytes(dol, sec)
               o == cursor - dol.textSections[sec].address
           IN  /\ Contains(bytes, GCNVIHOOK) => FirstAt(bytes, GCNVIHOOK, o)
               /\ ~Contains(bytes, GCNVIHOOK) => FirstAt(bytes, WIIVIHOOK, o)

\* C10's case: the match in a section where a Wii signature precedes the
\* GameCube signature.
C10_Witness ==
    /\ pc = "l68"
    /\ \E q \in 0..(cursor - dol.textSections[sec].address - 1) :
           OccursAt(SectionBytes(dol, sec), WIIVIHOOK, q)
    /\ OccursAt(SectionBytes(dol, sec), GCNVIHOOK, cursor - dol.textSections[sec].address)

====
